---- MODULE Spec2Model ----
(***************************************************************************)
(* Model of the database provider clients of the boilerplate              *)
(* (PostgresClient, MySqlClient, MsSqlClient, SqliteClient): one client    *)
(* instance, its pool / handle slot / isTransaction flag, the asynchronous *)
(* handlers of connect, disconnect, query, execute and transaction split   *)
(* at their awaits, and the driver underneath (pools, checked-out          *)
(* connections, the committed rows and each connection's uncommitted       *)
(* rows).                                                                  *)
(***************************************************************************)
EXTENDS Integers, FiniteSets, Sequences, TLC

\* ---------------------------------------------------------------- bounds
\* Number of transaction() calls in flight at one time (call slot i checks out connection i).
MaxTx == 2
\* Number of pools (or sqlite handles) a behaviour may create.
MaxPools == 2
\* Rows an INSERT may write.
MaxRows == 1
\* Statements one transaction body issues.
MaxBodySteps == 2
\* connect() or disconnect() calls awaiting the driver at one time.
MaxInFlight == 1
\* Tokens of an SQL text.
MaxSqlLen == 4
\* Values in a params list.
MaxParams == 2
\* Tests using the db fixture, run by parallel workers.
MaxTests == 2
\* Calls of json(), text() and body() on one ApiResponse.
MaxAccessorCalls == 2

Calls == 1..MaxTx
Rows == 1..MaxRows

Providers == {"postgres", "mysql", "mssql", "sqlite"}
\* Providers whose transaction checks a connection out of the pool.
Pooled == {"postgres", "mysql"}
\* Providers that keep a handle slot and an isTransaction flag.
Networked == {"postgres", "mysql", "mssql"}

VARIABLES
  provider,       \* config.provider: which client class the instance is
  promiseCheck,   \* better-sqlite3: whether db.transaction rejects a function returning a promise
  pool,           \* this.pool (this.db for sqlite): 0 is null, else the pool's id
  handle,         \* this.client / this.connection / this.currentTransaction: 0 is null
  isTransaction,  \* this.isTransaction
  nPools,         \* driver: pools created so far
  poolEnds,       \* driver: end()/close() calls received by each pool
  committed,      \* driver: rows committed in the data store
  pending,        \* driver: rows written in each connection's open transaction
  connTx,         \* driver: "none" | "open" per connection
  connRel,        \* driver: release() calls received by each connection
  tx,             \* the transaction() calls: position and locals of each
  connecting,     \* connect() calls awaiting sql.connect
  disconnecting,  \* disconnect() calls awaiting pool.end()/close()
  life,           \* history: "new" | "connected" | "closed", by the last settled connect/disconnect
  disturbed,      \* history: a transaction overlapped another transaction or a disconnect
  ev,             \* history: what the last handler step did
  q,              \* one query() call followed from its arguments to its QueryResult
  env,            \* process.env as DatabaseFactory.fromEnv() reads it
  tests,          \* the tests using the db fixture: position and client of each
  api             \* one ApiClient, its last request and the ApiResponse it returned

envVars == <<provider, promiseCheck>>
instVars == <<pool, handle, isTransaction>>
storeVars == <<committed, pending, connTx>>
poolVars == <<nPools, poolEnds>>
sideVars == <<q, env, tests, api>>
allVars == <<provider, promiseCheck, pool, handle, isTransaction, nPools, poolEnds,
             committed, pending, connTx, connRel, tx, connecting, disconnecting,
             life, disturbed, ev, q, env, tests, api>>
vars == <<provider, promiseCheck, pool, handle, isTransaction, nPools, poolEnds,
          committed, pending, connTx, connRel, tx, connecting, disconnecting,
          life, disturbed, ev>>

\* A transaction() call: pc is its position, err the error its catch block caught,
\* stmt/on the statement it awaits and the connection it was issued on, out how it
\* settled ("resolved" or the error it rejected with). History: writes are the rows
\* its body's execute() calls wrote, snap the committed rows when it began, steps the
\* statements its body issued, bodyRes how the body ended, rbOn/cmOn the connection
\* its ROLLBACK/COMMIT was issued on.
TxIdle ==
  [pc |-> "idle", err |-> "", stmt |-> "", on |-> 0, out |-> "",
   writes |-> {}, snap |-> {}, steps |-> 0, bodyRes |-> "", rbOn |-> 0, cmOn |-> 0]

\* The record of a handler step; every action fills it. stmt is the statement
\* ("query", "exec") the step issued through the instance, drv the sequence of calls
\* the step made on the driver, each <<verb, id>>, preActive the calls that held a
\* begun transaction when the step started, backend whether the backend was reachable
\* and accepted the credentials ("up" / "down") when a connect() step asked the
\* driver for a pool, count the figure a statement step returned to its caller
\* (rowCount of query(), the number of execute()), row the row an INSERT step wrote.
Ev(op, call, stmt, out, rows, drv) ==
  [op |-> op, call |-> call, stmt |-> stmt, out |-> out, rows |-> rows, drv |-> drv,
   preActive |-> {i \in Calls : tx[i].pc \in {"begin", "body", "commit", "rollback"}},
   prePool |-> pool, preHandle |-> handle, preIsTx |-> isTransaction,
   preLife |-> life, preBusy |-> connecting + disconnecting, backend |-> "",
   count |-> 0, row |-> 0]

DbInit ==
  /\ provider \in Providers
  /\ promiseCheck \in (IF provider = "sqlite" THEN BOOLEAN ELSE {TRUE})
  /\ pool = 0
  /\ handle = 0
  /\ isTransaction = FALSE
  /\ nPools = 0
  /\ poolEnds = [p \in 1..MaxPools |-> 0]
  /\ committed = {}
  /\ pending = [c \in Calls |-> {}]
  /\ connTx = [c \in Calls |-> "none"]
  /\ connRel = [c \in Calls |-> 0]
  /\ tx = [i \in Calls |-> TxIdle]
  /\ connecting = 0
  /\ disconnecting = 0
  /\ life = "new"
  /\ disturbed = FALSE
  /\ ev = [op |-> "init", call |-> 0, stmt |-> "", out |-> "", rows |-> {}, drv |-> <<>>,
           preActive |-> {},
           prePool |-> 0, preHandle |-> 0, preIsTx |-> FALSE,
           preLife |-> "new", preBusy |-> 0, backend |-> "",
           count |-> 0, row |-> 0]

\* No query() call is followed, no test is running.
QIdle == [stage |-> "idle"]
EnvIdle == [DB_PROVIDER |-> "", DB_CONNECTION_STRING |-> ""]
TestsIdle == <<>>
ApiIdle == [stage |-> "idle"]

Init ==
  /\ DbInit
  /\ q = QIdle
  /\ env = EnvIdle
  /\ tests = TestsIdle
  /\ api = ApiIdle

\* A transaction() call that has started and not settled (for sqlite also a body
\* that runs on after its transaction() has settled).
Active(i) == tx[i].pc \in {"checkout", "begin", "body", "commit", "rollback", "detached"}
AnyActive == \E i \in Calls : Active(i)

\* ------------------------------------------------------------ lifecycle

\* connect() without its guard.
AlreadyConnectedNever(p) == FALSE

\* connect(): `if (this.pool) return;` (`if (this.db) return;` for sqlite).
AlreadyConnected(p) == p # 0

\* Whether connect() awaits the driver: only mssql's sql.connect() returns a promise;
\* new Pool(), mysql.createPool() and new Database() are synchronous.
ConnectAwaits(prov) == prov = "mssql"

\* Whether the driver call of connect() can fail: pg's Pool and mysql2's pool open no
\* connection when constructed; new Database(path) opens the file.
ConnectCanFail(prov) == prov \in {"mssql", "sqlite"}

\* Whether the driver call of connect() succeeds against a backend that is reachable
\* (up) or not: a driver that opens nothing when the pool is constructed succeeds
\* either way.
DriverConnects(prov, up) == ConnectCanFail(prov) => up

BackendOf(up) == IF up THEN "up" ELSE "down"

\* connect(), up to its await or its end.
Connect ==
  /\ IF AlreadyConnected(pool)
       THEN /\ UNCHANGED <<pool, nPools, connecting>>
            /\ life' = "connected"
            /\ ev' = Ev("connect", 0, "", "ok", {}, <<>>)
       ELSE /\ nPools + connecting < MaxPools
            /\ IF ConnectAwaits(provider)
                 THEN /\ connecting' = connecting + 1
                      /\ UNCHANGED <<pool, nPools, life>>
                      /\ ev' = Ev("connect", 0, "", "pending", {}, <<>>)
                 ELSE /\ UNCHANGED connecting
                      /\ \E up \in BOOLEAN :
                           IF DriverConnects(provider, up)
                             THEN /\ nPools' = nPools + 1
                                  /\ pool' = nPools + 1
                                  /\ life' = "connected"
                                  /\ ev' = [Ev("connect", 0, "", "ok", {}, <<<<"newPool", nPools + 1>>>>)
                                              EXCEPT !.backend = BackendOf(up)]
                             ELSE /\ UNCHANGED <<pool, nPools, life>>
                                  /\ ev' = [Ev("connect", 0, "", "ConnectionError", {}, <<>>)
                                              EXCEPT !.backend = BackendOf(up)]
  /\ UNCHANGED <<envVars, handle, isTransaction, poolEnds, storeVars, connRel, tx,
                 disconnecting, disturbed>>

\* A driver that resumes the calls awaiting sql.connect() one by one, each with a
\* pool of its own.
ResumedOneByOne(n) == 1

\* The calls resumed when sql.connect() settles: sql.connect() is the driver's
\* global pool, which the first call creates and every call made while it is still
\* connecting joins, so all n calls awaiting it are resumed by the same pool.
ResumedTogether(n) == n

\* connect() of MsSqlClient resumed by sql.connect(): `this.pool = await sql.connect(..)`
\* in every call that awaits it; ok is whether the backend was reachable and
\* accepted the credentials.
ConnectDone(ok) ==
  /\ connecting > 0
  /\ connecting' = connecting - ResumedTogether(connecting)
  /\ IF DriverConnects(provider, ok)
       THEN /\ nPools' = nPools + 1
            /\ pool' = nPools + 1
            /\ life' = "connected"
            /\ ev' = [Ev("connectDone", 0, "", "ok", {}, <<<<"newPool", nPools + 1>>>>)
                        EXCEPT !.backend = BackendOf(ok)]
       ELSE /\ UNCHANGED <<pool, nPools, life>>
            /\ ev' = [Ev("connectDone", 0, "", "ConnectionError", {}, <<>>)
                        EXCEPT !.backend = BackendOf(ok)]
  /\ UNCHANGED <<envVars, handle, isTransaction, poolEnds, storeVars, connRel, tx,
                 disconnecting, disturbed>>

\* disconnect(): whether the held handle gets release() called on it (pg, mysql2) or
\* the slot is only set to null (mssql: `this.currentTransaction = null`).
DisconnectReleases(prov) == prov \in Pooled

\* Whether disconnect() awaits the closing of the pool (sqlite's db.close() is synchronous).
DisconnectAwaits(prov) == prov \in Networked

\* disconnect() leaving the closed pool in the slot.
AfterEndKept(p) == p

\* disconnect(): `this.pool = null` (`this.db = null`) once the pool is closed.
AfterEnd(p) == 0

\* disconnect(), up to its await or its end.
Disconnect ==
  LET rel == handle # 0 /\ provider \in Networked /\ DisconnectReleases(provider)
      relCalls == IF rel THEN <<<<"release", handle>>>> ELSE <<>>
      endCalls == IF pool # 0 THEN <<<<"end", pool>>>> ELSE <<>>
  IN
  /\ pool # 0 /\ DisconnectAwaits(provider) => disconnecting < MaxInFlight
  /\ handle' = 0
  /\ connRel' = IF rel THEN [connRel EXCEPT ![handle] = @ + 1] ELSE connRel
  /\ poolEnds' = IF pool # 0 THEN [poolEnds EXCEPT ![pool] = @ + 1] ELSE poolEnds
  /\ IF pool # 0 /\ DisconnectAwaits(provider)
       THEN /\ disconnecting' = disconnecting + 1
            /\ UNCHANGED <<pool, life>>
            /\ ev' = Ev("disconnect", 0, "", "pending", {}, relCalls \o endCalls)
       ELSE /\ pool' = IF pool # 0 THEN AfterEnd(pool) ELSE pool
            /\ life' = "closed"
            /\ UNCHANGED disconnecting
            /\ ev' = Ev("disconnect", 0, "", "ok", {}, relCalls \o endCalls)
  /\ disturbed' = (disturbed \/ AnyActive)
  /\ UNCHANGED <<envVars, isTransaction, nPools, storeVars, tx, connecting>>

\* disconnect() resumed by pool.end() / pool.close(): `this.pool = null`.
DisconnectDone ==
  /\ disconnecting > 0
  /\ disconnecting' = disconnecting - 1
  /\ pool' = AfterEnd(pool)
  /\ life' = "closed"
  /\ ev' = Ev("disconnectDone", 0, "", "ok", {}, <<>>)
  /\ UNCHANGED <<envVars, handle, isTransaction, poolVars, storeVars, connRel, tx,
                 connecting, disturbed>>

\* ------------------------------------------------------------ statements

\* The driver reports no count (null, undefined, an empty rowsAffected).
NoCount == 0 - 1

\* The rowCount of the QueryResult query() returns: pg `result.rowCount || 0`; mysql
\* `Array.isArray(rows) ? rows.length : affectedRows || 0`; mssql
\* `rowsAffected[0] || recordset?.length || 0`; sqlite `rows.length`.
RowCountOf(prov, reply) ==
  LET len == IF reply.isArray THEN reply.n ELSE 0
      reported == IF reply.count > 0 THEN reply.count ELSE 0
  IN CASE prov = "postgres" -> reported
       [] prov = "mysql" -> IF reply.isArray THEN len ELSE reported
       [] prov = "mssql" -> IF reported # 0 THEN reported ELSE len
       [] OTHER -> len

\* The QueryResult of query(): the driver's rows and the rowCount.
QueryResultOf(prov, reply) ==
  [rows |-> IF reply.isArray THEN [k \in 1..reply.n |-> k] ELSE <<>>,
   rowCount |-> RowCountOf(prov, reply)]

\* An execute() that returns the number of rows in the list.
ExecuteResultOfRows(prov, reply) == IF reply.isArray THEN reply.n ELSE 0

\* The number execute() returns: pg and mssql `(await this.query(..)).rowCount`;
\* mysql `affectedRows || 0`; sqlite `result.changes`.
ExecuteResultOf(prov, reply) ==
  CASE prov \in {"postgres", "mssql"} -> RowCountOf(prov, reply)
    [] prov = "mysql" -> IF reply.count > 0 THEN reply.count ELSE 0
    [] OTHER -> IF reply.count > 0 THEN reply.count ELSE 0


\* query()/execute()/transaction() without the guard.
NotConnectedNever(p) == FALSE

\* query()/execute()/transaction(): `if (!this.pool) throw new Error("Database not
\* connected. Call connect() first.")` (`!this.db` for sqlite).
NotConnected(p) == p = 0

\* query() always using the pool.
RouteToPool(isTx) == FALSE

\* query(): `this.isTransaction ? this.client! : this.pool` (mysql: this.connection,
\* mssql: new sql.Request(this.currentTransaction!)); TRUE routes to the handle slot.
RouteToHandle(isTx) == isTx

\* The rows a statement on connection c sees or writes to: inside c's open
\* transaction its own uncommitted rows too.
Visible(c, cTx, com, pen) ==
  IF c # 0 /\ cTx[c] = "open" THEN com \cup pen[c] ELSE com

\* The driver running one statement on connection c (0: a pool connection in
\* autocommit): an INSERT of `row`, or a SELECT.
RunOn(kind, row, c, cTx, com, pen, verb, id) ==
  [out |-> "ok",
   count |-> IF kind = "query"
               THEN LET n == Cardinality(Visible(c, cTx, com, pen))
                    IN RowCountOf(provider, [isArray |-> TRUE, n |-> n, count |-> n])
               ELSE ExecuteResultOf(provider, [isArray |-> FALSE, n |-> 0, count |-> 1]),
   rows |-> IF kind = "query" THEN Visible(c, cTx, com, pen) ELSE {},
   com |-> IF kind = "exec" /\ ~(c # 0 /\ cTx[c] = "open") THEN com \cup {row} ELSE com,
   pen |-> IF kind = "exec" /\ c # 0 /\ cTx[c] = "open"
             THEN [pen EXCEPT ![c] = @ \cup {row}] ELSE pen,
   drv |-> <<<<verb, id>>>>]

Thrown(err, com, pen, drv) ==
  [out |-> err, count |-> 0, rows |-> {}, com |-> com, pen |-> pen, drv |-> drv]

\* query(sql, params) / execute(sql, params) through the instance. cur is the sqlite
\* call whose db.transaction() wrapper is running (0: none); nullFallsBack is the
\* driver's answer to new sql.Request(null): the global pool, or a TypeError.
StmtVia(kind, row, nullFallsBack, cur, cTx, com, pen) ==
  IF NotConnected(pool) THEN Thrown("NotConnected", com, pen, <<>>)
  ELSE IF provider = "sqlite" THEN RunOn(kind, row, cur, cTx, com, pen, "connStmt", cur)
  ELSE IF RouteToHandle(isTransaction)
    THEN IF handle # 0 THEN RunOn(kind, row, handle, cTx, com, pen, "connStmt", handle)
         ELSE IF provider = "mssql" /\ nullFallsBack
           THEN RunOn(kind, row, 0, cTx, com, pen, "poolStmt", pool)
           ELSE Thrown("TypeError", com, pen, <<>>)
    ELSE IF pool = 0 \/ poolEnds[pool] > 0
           THEN Thrown("PoolClosed", com, pen, <<<<"poolStmt", pool>>>>)
         ELSE RunOn(kind, row, 0, cTx, com, pen, "poolStmt", pool)

\* query() called outside a transaction body.
Query(g) ==
  LET r == StmtVia("query", 0, g, 0, connTx, committed, pending) IN
  /\ ev' = [Ev("query", 0, "query", r.out, r.rows, r.drv) EXCEPT !.count = r.count]
  /\ UNCHANGED <<envVars, instVars, poolVars, storeVars, connRel, tx, connecting,
                 disconnecting, life, disturbed>>

\* execute() called outside a transaction body.
Execute(row, g) ==
  LET r == StmtVia("exec", row, g, 0, connTx, committed, pending) IN
  /\ committed' = r.com
  /\ pending' = r.pen
  /\ ev' = [Ev("execute", 0, "exec", r.out, r.rows, r.drv)
              EXCEPT !.count = r.count, !.row = IF r.out = "ok" THEN row ELSE 0]
  /\ UNCHANGED <<envVars, instVars, poolVars, connTx, connRel, tx, connecting,
                 disconnecting, life, disturbed>>

\* ------------------------------------------------------------ transaction

\* The rows an INSERT may write now. Rows are interchangeable, so an INSERT writes
\* the lowest-numbered row that is neither committed nor in any open transaction.
NewRows ==
  LET used == committed \cup UNION {pending[c] : c \in Calls}
  IN {r \in Rows : r \notin used /\ \A lower \in 1..(r - 1) : lower \in used}

\* What a transaction body does when it runs on: execute() an INSERT of a row,
\* query(), return, or throw. A statement the backend rejects makes the body throw
\* without a write, which "throw" covers.
BodyChoices ==
  {[k |-> "exec", row |-> r] : r \in NewRows}
    \cup {[k |-> "query", row |-> 0], [k |-> "ret", row |-> 0], [k |-> "throw", row |-> 0]}

\* A catch block that commits.
CatchStmtCommit == "COMMIT"

\* The statement the catch block of transaction() issues on the handle.
CatchStmt == "ROLLBACK"

\* Where a run of synchronous code of transaction() leaves the instance: the handle
\* slot, the flag, the connections' release counts, the call's record, and the calls
\* made on the driver.
Chain(h, isTx, rel, t, drv) == [h |-> h, isTx |-> isTx, rel |-> rel, t |-> t, drv |-> drv]

Settled(t, out) ==
  [t EXCEPT !.pc = "done", !.out = out, !.stmt = "", !.on = 0, !.err = "", !.steps = 0]

\* The release written after the try block instead of in a finally block: it is
\* skipped when the call rejects.
ReleaseAfterTry(t, h, isTx, rel, out, drv) ==
  IF provider \in Pooled /\ h # 0 /\ out = "resolved"
    THEN Chain(0, FALSE, [rel EXCEPT ![h] = @ + 1], Settled(t, out),
               Append(drv, <<"release", h>>))
    ELSE Chain(h, isTx, rel, Settled(t, out), drv)

\* The finally block: `this.client.release(); this.client = null; this.isTransaction
\* = false;` (mssql: no release). With an empty slot release() throws a TypeError,
\* which replaces the outcome and skips the two assignments.
Finally(t, h, isTx, rel, out, drv) ==
  IF provider \in Pooled
    THEN IF h = 0
           THEN Chain(h, isTx, rel, Settled(t, "TypeError"), drv)
           ELSE Chain(0, FALSE, [rel EXCEPT ![h] = @ + 1], Settled(t, out),
                      Append(drv, <<"release", h>>))
    ELSE Chain(0, FALSE, rel, Settled(t, out), drv)

\* The catch block: `await this.client.query("ROLLBACK"); throw error;`, issued on
\* whatever the slot holds now; on an empty slot the call itself throws.
IssueRollback(t, h, isTx, rel, err, drv) ==
  IF h = 0
    THEN Finally(t, h, isTx, rel, "TypeError", drv)
    ELSE Chain(h, isTx, rel,
               [t EXCEPT !.pc = "rollback", !.err = err, !.stmt = CatchStmt, !.on = h,
                         !.rbOn = IF CatchStmt = "ROLLBACK" THEN h ELSE @],
               Append(drv, <<CatchStmt, h>>))

\* A transaction that issues ROLLBACK after the body resolved.
IssueRollbackOnReturn(t, h, isTx, rel, drv) ==
  Chain(h, isTx, rel,
        [t EXCEPT !.pc = "commit", !.stmt = "ROLLBACK", !.on = h, !.rbOn = h],
        Append(drv, <<"ROLLBACK", h>>))

\* After the body resolved: `await this.client.query("COMMIT")`.
IssueCommit(t, h, isTx, rel, drv) ==
  IF h = 0
    THEN IssueRollback(t, h, isTx, rel, "TypeError", drv)
    ELSE Chain(h, isTx, rel,
               [t EXCEPT !.pc = "commit", !.stmt = "COMMIT", !.on = h, !.cmOn = h],
               Append(drv, <<"COMMIT", h>>))

\* The driver ending the transaction of connection c: COMMIT publishes its
\* uncommitted rows, ROLLBACK drops them; a failed statement changes nothing.
DriverEnd(verb, c, ok, cTx, com, pen) ==
  IF ~ok THEN [cTx |-> cTx, com |-> com, pen |-> pen]
  ELSE [cTx |-> [cTx EXCEPT ![c] = "none"],
        com |-> IF verb = "COMMIT" /\ cTx[c] = "open" THEN com \cup pen[c] ELSE com,
        pen |-> [pen EXCEPT ![c] = {}]]

ApplyChain(i, c) ==
  /\ handle' = c.h
  /\ isTransaction' = c.isTx
  /\ connRel' = c.rel
  /\ tx' = [tx EXCEPT ![i] = c.t]

\* The call slot a new transaction() call takes: the lowest one with no call in
\* flight. Connection i is the one call slot i checks out (mssql: the sql.Transaction
\* it creates); the pool hands it out with no transaction open.
FreeSlot(i) == ~Active(i) /\ \A j \in 1..(i - 1) : Active(j)

FreshConn(i) ==
  /\ connTx' = [connTx EXCEPT ![i] = "none"]
  /\ pending' = [pending EXCEPT ![i] = {}]
  /\ connRel' = [connRel EXCEPT ![i] = 0]

\* transaction(fn) of the pooled and mssql clients, up to its first await, as the
\* call in slot i.
TxStartAt(i) ==
  /\ provider \in Networked
  /\ IF NotConnected(pool)
       THEN /\ ev' = Ev("txStart", i, "", "NotConnected", {}, <<>>)
            /\ UNCHANGED <<handle, isTransaction, tx, disturbed, connTx, pending, connRel>>
       ELSE /\ disturbed' = (disturbed \/ AnyActive \/ disconnecting > 0)
            /\ FreshConn(i)
            /\ IF provider \in Pooled
                 THEN /\ tx' = [tx EXCEPT ![i] = [TxIdle EXCEPT !.pc = "checkout"]]
                      /\ UNCHANGED <<handle, isTransaction>>
                      /\ ev' = Ev("txStart", i, "", "pending", {}, <<<<"checkout", pool>>>>)
                 ELSE /\ handle' = i
                      /\ isTransaction' = TRUE
                      /\ tx' = [tx EXCEPT ![i] =
                                  [TxIdle EXCEPT !.pc = "begin", !.stmt = "BEGIN", !.on = i]]
                      /\ ev' = Ev("txStart", i, "", "pending", {}, <<<<"BEGIN", i>>>>)
  /\ UNCHANGED <<envVars, pool, poolVars, committed, connecting, disconnecting, life>>

TxStart(i) == FreeSlot(i) /\ TxStartAt(i)

\* `this.client = await this.pool.connect(); this.isTransaction = true;` and the
\* BEGIN issued on the new handle; or the checkout rejecting.
TxCheckoutDone(i, ok) ==
  /\ tx[i].pc = "checkout"
  /\ IF ok
       THEN /\ handle' = i
            /\ isTransaction' = TRUE
            /\ tx' = [tx EXCEPT ![i] = [@ EXCEPT !.pc = "begin", !.stmt = "BEGIN", !.on = i]]
            /\ ev' = Ev("checkoutDone", i, "", "pending", {}, <<<<"BEGIN", i>>>>)
       ELSE /\ tx' = [tx EXCEPT ![i] = Settled(@, "CheckoutErr")]
            /\ UNCHANGED <<handle, isTransaction>>
            /\ ev' = Ev("checkoutDone", i, "", "CheckoutErr", {}, <<>>)
  /\ UNCHANGED <<envVars, pool, poolVars, storeVars, connRel, connecting, disconnecting,
                 life, disturbed>>

\* The body running from one await to the next: one statement through the
\* instance, or its end, which takes transaction() on to COMMIT or to the catch block.
BodySegment(i, ch, g, t0, cTx0, op) ==
  LET stmt == ch.k \in {"exec", "query"}
      r == StmtVia(ch.k, ch.row, g, 0, cTx0, committed, pending)
      t1 == IF stmt /\ r.out = "ok"
              THEN [t0 EXCEPT !.pc = "body", !.steps = @ + 1,
                              !.writes = IF ch.k = "exec" THEN @ \cup {ch.row} ELSE @]
              ELSE [t0 EXCEPT !.bodyRes = IF ch.k = "ret" THEN "ok" ELSE "err"]
      c == IF stmt /\ r.out = "ok" THEN Chain(handle, isTransaction, connRel, t1, r.drv)
           ELSE IF ch.k = "ret" THEN IssueCommit(t1, handle, isTransaction, connRel, <<>>)
           ELSE IF stmt THEN IssueRollback(t1, handle, isTransaction, connRel, r.out, r.drv)
           ELSE IssueRollback(t1, handle, isTransaction, connRel, "BodyErr", <<>>)
  IN
  /\ stmt => t0.steps < MaxBodySteps
  /\ committed' = IF stmt THEN r.com ELSE committed
  /\ pending' = IF stmt THEN r.pen ELSE pending
  /\ ApplyChain(i, c)
  /\ ev' = Ev(op, i, IF stmt THEN ch.k ELSE "", IF stmt THEN r.out ELSE ch.k,
              IF stmt THEN r.rows ELSE {}, c.drv)

\* `await this.client.query("BEGIN")` resumed: fn(this) is invoked and runs to its
\* first await; or BEGIN failed and the catch block runs.
TxBeginDone(i, ok, ch, g) ==
  /\ tx[i].pc = "begin"
  /\ IF ok
       THEN LET cTx1 == [connTx EXCEPT ![tx[i].on] = "open"]
                t0 == [tx[i] EXCEPT !.snap = committed, !.stmt = "", !.on = 0]
            IN /\ connTx' = cTx1
               /\ BodySegment(i, ch, g, t0, cTx1, "beginDone")
       ELSE /\ ch.k = "ret" /\ ~g
            /\ LET c == IssueRollback([tx[i] EXCEPT !.stmt = "", !.on = 0], handle,
                                      isTransaction, connRel, "BeginErr", <<>>)
               IN /\ ApplyChain(i, c)
                  /\ ev' = Ev("beginDone", i, "", "BeginErr", {}, c.drv)
            /\ UNCHANGED storeVars
  /\ UNCHANGED <<envVars, pool, poolVars, connecting, disconnecting, life, disturbed>>

\* The body resumed after an await.
TxBodyStep(i, ch, g) ==
  /\ provider \in Networked
  /\ tx[i].pc = "body"
  /\ BodySegment(i, ch, g, tx[i], connTx, "body")
  /\ UNCHANGED <<envVars, pool, poolVars, connTx, connecting, disconnecting, life, disturbed>>

\* `await this.client.query("COMMIT")` resumed: `return result` through the finally
\* block, or the catch block.
TxCommitDone(i, ok) ==
  /\ tx[i].pc = "commit"
  /\ LET d == DriverEnd(tx[i].stmt, tx[i].on, ok, connTx, committed, pending)
         t0 == [tx[i] EXCEPT !.stmt = "", !.on = 0]
         c == IF ok THEN Finally(t0, handle, isTransaction, connRel, "resolved", <<>>)
              ELSE IssueRollback(t0, handle, isTransaction, connRel, "CommitErr", <<>>)
     IN /\ connTx' = d.cTx
        /\ committed' = d.com
        /\ pending' = d.pen
        /\ ApplyChain(i, c)
        /\ ev' = Ev("commitDone", i, "", IF ok THEN "ok" ELSE "CommitErr", {}, c.drv)
  /\ UNCHANGED <<envVars, pool, poolVars, connecting, disconnecting, life, disturbed>>

\* `await this.client.query("ROLLBACK")` resumed: `throw error` through the finally
\* block; a ROLLBACK that rejected throws its own error there instead.
TxRollbackDone(i, ok) ==
  /\ tx[i].pc = "rollback"
  /\ LET d == DriverEnd(tx[i].stmt, tx[i].on, ok, connTx, committed, pending)
         t0 == [tx[i] EXCEPT !.stmt = "", !.on = 0]
         c == Finally(t0, handle, isTransaction, connRel,
                      IF ok THEN tx[i].err ELSE "RollbackErr", <<>>)
     IN /\ connTx' = d.cTx
        /\ committed' = d.com
        /\ pending' = d.pen
        /\ ApplyChain(i, c)
        /\ ev' = Ev("rollbackDone", i, "", IF ok THEN "ok" ELSE "RollbackErr", {}, c.drv)
  /\ UNCHANGED <<envVars, pool, poolVars, connecting, disconnecting, life, disturbed>>

\* transaction(fn) of SqliteClient, all of it up to the await inside fn: db.transaction
\* wraps `async () => await fn(this)` and the wrapper runs BEGIN, the function (which
\* runs fn to its first await and returns a promise), then COMMIT; a better-sqlite3
\* that checks the returned value throws a TypeError for the promise and runs
\* ROLLBACK instead.
TxStartSqlite(i, ch) ==
  /\ provider = "sqlite"
  /\ FreeSlot(i)
  /\ IF NotConnected(pool)
       THEN /\ ch.k = "ret"
            /\ ev' = Ev("txStart", i, "", "NotConnected", {}, <<>>)
            /\ UNCHANGED <<storeVars, tx, disturbed>>
       ELSE LET stmt == ch.k \in {"exec", "query"}
                cTx1 == [connTx EXCEPT ![i] = "open"]
                r == IF stmt THEN StmtVia(ch.k, ch.row, FALSE, i, cTx1, committed, pending)
                     ELSE Thrown("", committed, pending, <<>>)
                fin == IF promiseCheck THEN "ROLLBACK" ELSE "COMMIT"
                d == DriverEnd(fin, i, TRUE, cTx1, r.com, r.pen)
                t1 == [TxIdle EXCEPT
                         !.snap = committed,
                         !.writes = IF ch.k = "exec" THEN {ch.row} ELSE {},
                         !.steps = IF stmt THEN 1 ELSE 0,
                         !.bodyRes = IF stmt THEN "" ELSE IF ch.k = "ret" THEN "ok" ELSE "err",
                         !.cmOn = IF promiseCheck THEN 0 ELSE i,
                         !.rbOn = IF promiseCheck THEN i ELSE 0,
                         !.out = IF promiseCheck THEN "TypeError"
                                 ELSE IF stmt THEN ""
                                 ELSE IF ch.k = "ret" THEN "resolved" ELSE "BodyErr",
                         !.pc = IF ~stmt THEN "done"
                                ELSE IF promiseCheck THEN "detached" ELSE "body"]
            IN /\ connTx' = d.cTx
               /\ committed' = d.com
               /\ pending' = d.pen
               /\ tx' = [tx EXCEPT ![i] = t1]
               /\ disturbed' = (disturbed \/ AnyActive)
               /\ ev' = Ev("txStart", i, IF stmt THEN ch.k ELSE "",
                           IF t1.out = "" THEN "pending" ELSE t1.out, r.rows,
                           <<<<"BEGIN", i>>>> \o r.drv \o <<<<fin, i>>>>)
  /\ UNCHANGED <<envVars, instVars, poolVars, connRel, connecting, disconnecting, life>>

\* The body of a sqlite transaction resumed after an await: the wrapper has
\* returned, so its statements run outside any transaction; transaction() settles
\* with the body unless it has already rejected.
TxBodyStepSqlite(i, ch) ==
  /\ provider = "sqlite"
  /\ tx[i].pc \in {"body", "detached"}
  /\ LET stmt == ch.k \in {"exec", "query"}
         r == IF stmt THEN StmtVia(ch.k, ch.row, FALSE, 0, connTx, committed, pending)
              ELSE Thrown("", committed, pending, <<>>)
         res == IF stmt THEN r.out ELSE IF ch.k = "ret" THEN "resolved" ELSE "BodyErr"
         t1 == IF stmt /\ r.out = "ok"
                 THEN [tx[i] EXCEPT !.steps = @ + 1,
                                    !.writes = IF ch.k = "exec" THEN @ \cup {ch.row} ELSE @]
                 ELSE [tx[i] EXCEPT !.pc = "done", !.steps = 0,
                                    !.bodyRes = IF ch.k = "ret" THEN "ok" ELSE "err",
                                    !.out = IF tx[i].pc = "body" THEN res ELSE @]
     IN /\ stmt => tx[i].steps < MaxBodySteps
        /\ committed' = r.com
        /\ pending' = r.pen
        /\ tx' = [tx EXCEPT ![i] = t1]
        /\ ev' = Ev("body", i, IF stmt THEN ch.k ELSE "", res, r.rows, r.drv)
  /\ UNCHANGED <<envVars, instVars, poolVars, connTx, connRel, connecting, disconnecting,
                 life, disturbed>>

\* The answers the driver may give to new sql.Request(null) where one is made.
NullAnswers ==
  IF provider = "mssql" /\ isTransaction /\ handle = 0 THEN BOOLEAN ELSE {FALSE}

\* The client is used as the concurrency model asks: transaction() calls on the
\* instance do not overlap. Everything else may be called at any time.
Next ==
  \/ Connect /\ UNCHANGED sideVars
  \/ \E ok \in BOOLEAN : ConnectDone(ok) /\ UNCHANGED sideVars
  \/ Disconnect /\ UNCHANGED sideVars
  \/ DisconnectDone /\ UNCHANGED sideVars
  \/ \E g \in NullAnswers : Query(g) /\ UNCHANGED sideVars
  \/ \E row \in NewRows, g \in NullAnswers : Execute(row, g) /\ UNCHANGED sideVars
  \/ \E i \in Calls : ~AnyActive /\ TxStart(i) /\ UNCHANGED sideVars
  \/ \E i \in Calls, ok \in BOOLEAN : TxCheckoutDone(i, ok) /\ UNCHANGED sideVars
  \/ \E i \in Calls, ok \in BOOLEAN, ch \in BodyChoices, g \in NullAnswers : TxBeginDone(i, ok, ch, g) /\ UNCHANGED sideVars
  \/ \E i \in Calls, ch \in BodyChoices, g \in NullAnswers : TxBodyStep(i, ch, g) /\ UNCHANGED sideVars
  \/ \E i \in Calls, ok \in BOOLEAN : TxCommitDone(i, ok) /\ UNCHANGED sideVars
  \/ \E i \in Calls, ok \in BOOLEAN : TxRollbackDone(i, ok) /\ UNCHANGED sideVars
  \/ \E i \in Calls, ch \in BodyChoices : ~AnyActive /\ TxStartSqlite(i, ch) /\ UNCHANGED sideVars
  \/ \E i \in Calls, ch \in BodyChoices : TxBodyStepSqlite(i, ch) /\ UNCHANGED sideVars

Spec == Init /\ [][Next]_allVars

\* A transaction() call made while every earlier call on the instance is still in
\* flight: slot 1 is the first call, slot 2 the second, each slot used once.
OverlapSlot(i) == tx[i].pc = "idle" /\ \A j \in 1..(i - 1) : Active(j)

TxStartOverlapping(i) == OverlapSlot(i) /\ TxStartAt(i)

InitOverlap == Init /\ provider \in Networked

\* One networked client on which transaction() calls overlap (nested, or started
\* side by side); the bodies issue their statements through the instance.
NextOverlap ==
  \/ Connect /\ UNCHANGED sideVars
  \/ \E ok \in BOOLEAN : ConnectDone(ok) /\ UNCHANGED sideVars
  \/ \E i \in Calls : TxStartOverlapping(i) /\ UNCHANGED sideVars
  \/ \E i \in Calls, ok \in BOOLEAN : TxCheckoutDone(i, ok) /\ UNCHANGED sideVars
  \/ \E i \in Calls, ok \in BOOLEAN, ch \in BodyChoices, g \in NullAnswers : TxBeginDone(i, ok, ch, g) /\ UNCHANGED sideVars
  \/ \E i \in Calls, ch \in BodyChoices, g \in NullAnswers : TxBodyStep(i, ch, g) /\ UNCHANGED sideVars
  \/ \E i \in Calls, ok \in BOOLEAN : TxCommitDone(i, ok) /\ UNCHANGED sideVars
  \/ \E i \in Calls, ok \in BOOLEAN : TxRollbackDone(i, ok) /\ UNCHANGED sideVars

SpecOverlap == InitOverlap /\ [][NextOverlap]_allVars

\* ------------------------------------------------- one query() call, end to end

\* The SQL text is a sequence of tokens: a `?`, a quote that opens or closes a string
\* literal, or any other text.
SqlTokens == {"?", "'", "x"}

\* The values a caller may pass as parameters.
ParamValues == {"v1", "v2"}

SeqsUpTo(S, n) == UNION {[1..k -> S] : k \in 0..n}

\* The SQL texts and the params arguments (given is FALSE when the argument is
\* left out) a call may have.
SqlTexts == SeqsUpTo(SqlTokens, MaxSqlLen)
ParamArgs ==
  {[given |-> FALSE, vals |-> <<>>]}
    \cup {[given |-> TRUE, vals |-> v] : v \in SeqsUpTo(ParamValues, MaxParams)}

\* `p${index}`: the name of the input convertParams binds.
InputName(index) == "p" \o ToString(index)

\* A placeholder numbered from one.
PlaceholderNameFromOne(index) == "@p" \o ToString(index + 1)

\* `@p${index}`: the token convertSql writes.
PlaceholderName(index) == "@p" \o ToString(index)

\* A replacement of every occurrence of the pattern.
ReplaceEvery(text, pattern, replacement) ==
  [i \in 1..Len(text) |-> IF text[i] = pattern THEN replacement ELSE text[i]]

\* String.prototype.replace(pattern, replacement) with a string pattern: the first
\* occurrence only, or the text unchanged when there is none.
ReplaceFirst(text, pattern, replacement) ==
  IF \E i \in 1..Len(text) : text[i] = pattern
    THEN LET first == CHOOSE i \in 1..Len(text) :
                        text[i] = pattern /\ \A j \in 1..(i - 1) : text[j] # pattern
         IN [text EXCEPT ![first] = replacement]
    ELSE text

\* A rewrite that writes the value itself into the text.
ConvertStepInline(text, param, index) == ReplaceFirst(text, "?", param)

\* The callback of convertSql: `convertedSql = convertedSql.replace("?", `@p${index}`)`;
\* the parameter itself is ignored.
ConvertStep(text, param, index) == ReplaceFirst(text, "?", PlaceholderName(index))

RECURSIVE ConvertFrom(_, _, _)
\* params.forEach from `index` on.
ConvertFrom(text, vals, index) ==
  IF index >= Len(vals) THEN text
  ELSE ConvertFrom(ConvertStep(text, vals[index + 1], index), vals, index + 1)

\* convertSql(sqlQuery, params): `if (!params) return sqlQuery`, else the forEach.
convertSql(sqlQuery, params) ==
  IF ~params.given THEN sqlQuery ELSE ConvertFrom(sqlQuery, params.vals, 0)

\* convertParams(request, params): the inputs bound on the request, in order, each
\* <<name, value>>.
convertParams(params) ==
  IF ~params.given THEN <<>>
  ELSE [k \in 1..Len(params.vals) |-> <<InputName(k - 1), params.vals[k]>>]

\* What query(sql, params) hands to the driver: the SQL text and the values bound
\* with it, by name for mssql and by position for the others.
SentText(prov, sql, params) == IF prov = "mssql" THEN convertSql(sql, params) ELSE sql

SentInputs(prov, params) ==
  IF prov = "mssql" THEN convertParams(params)
  ELSE [k \in 1..Len(params.vals) |-> <<ToString(k - 1), params.vals[k]>>]

\* What the driver answers to a statement: isArray whether it returns a row list (a
\* read) or only a header, n the number of rows in the list, count the row figure it
\* reports (pg rowCount, mysql affectedRows, mssql rowsAffected[0], sqlite changes).
DriverReplies ==
  [isArray : BOOLEAN, n : 0..MaxRows, count : NoCount..(MaxRows + 1)]

\* query(sql, params) on a connected client, up to the driver call.
QuerySend ==
  /\ q.stage = "called"
  /\ q' = [q EXCEPT !.stage = "sent",
                    !.text = SentText(provider, q.sql, q.params),
                    !.inputs = SentInputs(provider, q.params)]
  /\ UNCHANGED <<vars, env, tests, api>>

\* query() resumed by the driver's answer: the QueryResult is built and returned.
QueryReturn(reply) ==
  /\ q.stage = "sent"
  /\ q' = [q EXCEPT !.stage = "returned", !.reply = reply,
                    !.result = QueryResultOf(provider, reply)]
  /\ UNCHANGED <<vars, env, tests, api>>

InitQuery ==
  /\ DbInit
  /\ env = EnvIdle
  /\ tests = TestsIdle
  /\ api = ApiIdle
  /\ \E sql \in SqlTexts, params \in ParamArgs :
       q = [stage |-> "called", sql |-> sql, params |-> params, text |-> <<>>,
            inputs |-> <<>>, reply |-> [isArray |-> FALSE, n |-> 0, count |-> NoCount],
            result |-> [rows |-> <<>>, rowCount |-> 0]]

NextQuery ==
  \/ QuerySend
  \/ \E reply \in DriverReplies : QueryReturn(reply)

SpecQuery == InitQuery /\ [][NextQuery]_allVars

\* ------------------------------------------------- factory and db fixture

\* An environment variable that is not set.
Unset == "<unset>"

\* The values DB_PROVIDER and DB_CONNECTION_STRING may have in the environment.
ProviderTags == Providers \cup {Unset, "", "oracle"}
ConnectionStrings == {Unset, "", "url"}

\* JavaScript truthiness of an optional string.
Truthy(v) == v \notin {Unset, ""}

NoClient == [class |-> "", config |-> [provider |-> "", connectionString |-> Unset]]

\* A factory that falls back to SQLite for an unknown tag.
createDefaulting(config) ==
  [threw |-> <<>>,
   client |-> [class |-> CASE config.provider = "postgres" -> "PostgresClient"
                           [] config.provider = "mysql" -> "MySqlClient"
                           [] config.provider = "mssql" -> "MsSqlClient"
                           [] OTHER -> "SqliteClient",
               config |-> config]]

\* DatabaseFactory.create(config): the switch on config.provider; threw is the
\* error thrown, <<message, tag named>>, or <<>>.
create(config) ==
  IF config.provider \in Providers
    THEN [threw |-> <<>>,
          client |-> [class |-> CASE config.provider = "postgres" -> "PostgresClient"
                                  [] config.provider = "mysql" -> "MySqlClient"
                                  [] config.provider = "mssql" -> "MsSqlClient"
                                  [] OTHER -> "SqliteClient",
                      config |-> config]]
    ELSE [threw |-> <<"Unsupported database provider: ", config.provider>>,
          client |-> NoClient]

\* DatabaseFactory.fromEnv(): `if (!provider) throw ..`, then the config read from
\* the environment is handed to create().
fromEnv(e) ==
  IF ~Truthy(e.DB_PROVIDER)
    THEN [threw |-> <<"DB_PROVIDER environment variable is required", "">>,
          client |-> NoClient]
    ELSE create([provider |-> e.DB_PROVIDER, connectionString |-> e.DB_CONNECTION_STRING])

\* What connect() builds its pool from: pg `this.config.connectionString ?
\* { connectionString } : { host, .. }`; mssql `if (this.config.connectionString)
\* sql.connect(connectionString) else sql.connect(sqlConfig)`; mysql createPool({ host,
\* port, database, user, password, .. }); sqlite the file path.
PoolBuiltFrom(client) ==
  CASE client.class \in {"PostgresClient", "MsSqlClient"} ->
         IF Truthy(client.config.connectionString) THEN "connectionString" ELSE "fields"
    [] client.class = "MySqlClient" -> "fields"
    [] OTHER -> "filePath"

\* A teardown that is skipped when the test body failed.
AfterUseIfPassed(bodyRes) == IF bodyRes = "passed" THEN 1 ELSE 0

\* The disconnect() calls of the fixture once use(db) has returned: the code after
\* `await use(db)` runs whether the test body passed or failed.
AfterUse(bodyRes) == 1

\* A test that has not started.
TestIdle ==
  [phase |-> "idle", id |-> 0, client |-> NoClient, threw |-> <<>>, poolFrom |-> "",
   connects |-> 0, disconnects |-> 0, bodyRes |-> ""]

\* The identity of the object a `new XClient(config)` yields: one no test holds.
NewClientId == 1 + Cardinality({t \in 1..Len(tests) : tests[t].id # 0})

\* The db fixture up to `await db.connect()`: DatabaseFactory.fromEnv() and the call
\* of connect(); a throw ends the fixture, and the test, before the body.
FixtureSetup(t) ==
  /\ tests[t].phase = "idle"
  /\ LET made == fromEnv(env) IN
       tests' = [tests EXCEPT ![t] =
                   IF made.threw # <<>>
                     THEN [@ EXCEPT !.phase = "setupFailed", !.threw = made.threw]
                     ELSE [@ EXCEPT !.phase = "connecting", !.id = NewClientId,
                                    !.client = made.client,
                                    !.poolFrom = PoolBuiltFrom(made.client)]]
  /\ UNCHANGED <<vars, q, env, api>>

\* `await db.connect()` resumed: `await use(db)` starts the test body; a connect()
\* that rejected ends the fixture before the body.
FixtureConnected(t, up) ==
  /\ tests[t].phase = "connecting"
  /\ tests' = [tests EXCEPT ![t] =
                 IF DriverConnects(tests[t].client.config.provider, up)
                   THEN [@ EXCEPT !.phase = "body", !.connects = @ + 1]
                   ELSE [@ EXCEPT !.phase = "setupFailed",
                                  !.threw = <<"ConnectionError", "">>]]
  /\ UNCHANGED <<vars, q, env, api>>

\* The test body ends, passed or failed: use(db) returns and the fixture calls
\* `await db.disconnect()`.
TestBodyEnds(t, bodyRes) ==
  /\ tests[t].phase = "body"
  /\ tests' = [tests EXCEPT ![t] =
                 [@ EXCEPT !.phase = "teardown", !.bodyRes = bodyRes,
                           !.disconnects = @ + AfterUse(bodyRes)]]
  /\ UNCHANGED <<vars, q, env, api>>

\* `await db.disconnect()` resumed: the fixture is done.
FixtureDone(t) ==
  /\ tests[t].phase = "teardown"
  /\ tests' = [tests EXCEPT ![t] = [@ EXCEPT !.phase = "done"]]
  /\ UNCHANGED <<vars, q, env, api>>

InitFixture ==
  /\ DbInit
  /\ q = QIdle
  /\ env \in [DB_PROVIDER : ProviderTags, DB_CONNECTION_STRING : ConnectionStrings]
  /\ tests = [t \in 1..MaxTests |-> TestIdle]
  /\ api = ApiIdle

NextFixture ==
  \/ \E t \in 1..MaxTests : FixtureSetup(t)
  \/ \E t \in 1..MaxTests, up \in BOOLEAN : FixtureConnected(t, up)
  \/ \E t \in 1..MaxTests, bodyRes \in {"passed", "failed"} : TestBodyEnds(t, bodyRes)
  \/ \E t \in 1..MaxTests : FixtureDone(t)

SpecFixture == InitFixture /\ [][NextFixture]_allVars

\* ------------------------------------------------------------ api client

\* JavaScript null.
Null == "null"

Verbs == {"get", "post", "put", "patch", "delete"}
HeaderKeys == {"accept", "x-id"}

\* Record<string, string> objects over HeaderKeys, every value being v.
HeaderMaps(v) == UNION {[S -> {v}] : S \in SUBSET HeaderKeys}

\* An optional `headers`, `params` or `timeout` field that is absent.
NoHeaders == [given |-> FALSE, map |-> [k \in {} |-> ""]]
NoParams == [given |-> FALSE, list |-> <<>>]
NoTimeout == 0 - 1

\* An optional headers field: absent, or one of the objects with values v.
HeaderFields(v) == {NoHeaders} \cup [given : {TRUE}, map : HeaderMaps(v)]

\* ApiClientConfig: each field may be absent; BASE_URL is process.env.BASE_URL.
ApiConfigs ==
  [baseURL : {Unset, "http://cfg"}, BASE_URL : {Unset, "http://env"},
   headers : HeaderFields("dflt"), timeout : {NoTimeout, 0, 5000}]

\* No options argument at all: every `options?.field` is undefined.
NoOptions == [given |-> FALSE, headers |-> NoHeaders, params |-> NoParams, timeout |-> NoTimeout]

\* RequestOptions, or no options argument.
RequestOptions ==
  {NoOptions} \cup [given : {TRUE}, headers : HeaderFields("call"),
                    params : {NoParams, [given |-> TRUE, list |-> <<<<"k", "v">>>>]},
                    timeout : {NoTimeout, 0, 100}]

\* What the underlying response's body parses to; "<html>" is not JSON.
Payloads == {Null, "{}", "<html>"}

\* JavaScript `a || b` on optional strings, and on optional numbers.
OrElse(a, b) == IF a \in {Unset, ""} THEN b ELSE a
OrElseNumber(a, b) == IF a \in {NoTimeout, 0} THEN b ELSE a

\* The timeout a constructor leaves when none is configured.
FallbackTimeout == 30000

\* new ApiClient(request, config).
ApiClientOf(config) ==
  [baseURL |-> OrElse(config.baseURL, OrElse(config.BASE_URL, "")),
   defaultHeaders |-> config.headers.map,
   defaultTimeout |-> OrElseNumber(config.timeout, FallbackTimeout)]

RECURSIVE SearchParams(_)
\* url.searchParams after the appends of buildUrl, as text.
SearchParams(params) ==
  IF params = <<>> THEN ""
  ELSE (IF Len(params) = 1 THEN "?" ELSE SearchParams(SubSeq(params, 1, Len(params) - 1)) \o "&")
       \o params[Len(params)][1] \o "=" \o params[Len(params)][2]

\* buildUrl(endpoint, params): new URL(endpoint, baseURL) throws on a relative
\* endpoint when the base is empty; the result is the URL or Unset for the throw.
buildUrl(client, endpoint, params) ==
  IF client.baseURL = "" THEN Unset
  ELSE client.baseURL \o endpoint \o (IF params.given THEN SearchParams(params.list) ELSE "")

\* A merge in which the instance's defaults win.
mergeHeadersDefaultsWin(client, options) ==
  LET own == options.headers.map IN
  [k \in DOMAIN client.defaultHeaders \cup DOMAIN own |->
     IF k \in DOMAIN client.defaultHeaders THEN client.defaultHeaders[k] ELSE own[k]]

\* mergeHeaders(options): { ...this.defaultHeaders, ...options?.headers }.
mergeHeaders(client, options) ==
  LET own == options.headers.map IN
  [k \in DOMAIN client.defaultHeaders \cup DOMAIN own |->
     IF k \in DOMAIN own THEN own[k] ELSE client.defaultHeaders[k]]

\* `timeout: options?.timeout || this.defaultTimeout`.
TimeoutOf(client, options) == OrElseNumber(options.timeout, client.defaultTimeout)

NoRequest == [verb |-> ""]
NoResponse == [payload |-> ""]

\* new ApiResponse(response): `_body` starts null.
ApiResponseOf(payload) ==
  [payload |-> payload, _body |-> Null, calls |-> 0, parsing |-> 0,
   jsonReads |-> 0, textReads |-> 0, bodyReads |-> 0, ret |-> <<>>]

\* get / post / put / patch / delete: the URL is built, the headers merged, the
\* timeout chosen, the underlying request made and its response wrapped. One
\* call is followed from its arguments to the ApiResponse it returns.
ApiRequest(verb, options, payload) ==
  /\ api.stage = "live"
  /\ api.sent = NoRequest /\ api.threw = ""
  /\ LET url == buildUrl(api.client, "/users", options.params) IN
       api' = IF url = Unset
                THEN [api EXCEPT !.threw = "Invalid URL"]
                ELSE [api EXCEPT
                        !.threw = "",
                        !.options = options,
                        !.sent = [verb |-> verb, url |-> url,
                                  data |-> IF verb \in {"post", "put", "patch"} THEN "data" ELSE Unset,
                                  headers |-> mergeHeaders(api.client, options),
                                  timeout |-> TimeoutOf(api.client, options)],
                        !.resp = ApiResponseOf(payload)]
  /\ UNCHANGED <<vars, q, env, tests>>

\* json() up to its await: `if (this._body === null)` starts a parse of the
\* underlying response, else the cached value is returned.
JsonCall ==
  /\ api.stage = "response"
  /\ api.resp.calls < MaxAccessorCalls
  /\ api' = [api EXCEPT !.resp =
               IF api.resp._body = Null
                 THEN [@ EXCEPT !.calls = @ + 1, !.jsonReads = @ + 1, !.parsing = @ + 1]
                 ELSE [@ EXCEPT !.calls = @ + 1, !.ret = <<"json", api.resp._body>>]]
  /\ UNCHANGED <<vars, q, env, tests>>

\* `this._body = await this.response.json()` resumed: the parsed value is cached
\* and returned; a body that is not JSON makes the call reject.
JsonParsed ==
  /\ api.stage = "response"
  /\ api.resp.parsing > 0
  /\ api' = [api EXCEPT !.resp =
               IF api.resp.payload = "<html>"
                 THEN [@ EXCEPT !.parsing = @ - 1, !.ret = <<"threw", "SyntaxError">>]
                 ELSE [@ EXCEPT !.parsing = @ - 1, !._body = api.resp.payload,
                                !.ret = <<"json", api.resp.payload>>]]
  /\ UNCHANGED <<vars, q, env, tests>>

\* text(): `return this.response.text()`.
TextCall ==
  /\ api.stage = "response"
  /\ api.resp.calls < MaxAccessorCalls
  /\ api' = [api EXCEPT !.resp = [@ EXCEPT !.calls = @ + 1, !.textReads = @ + 1,
                                            !.ret = <<"text", api.resp.payload>>]]
  /\ UNCHANGED <<vars, q, env, tests>>

\* body(): `return this.response.body()`.
BodyCall ==
  /\ api.stage = "response"
  /\ api.resp.calls < MaxAccessorCalls
  /\ api' = [api EXCEPT !.resp = [@ EXCEPT !.calls = @ + 1, !.bodyReads = @ + 1,
                                            !.ret = <<"body", api.resp.payload>>]]
  /\ UNCHANGED <<vars, q, env, tests>>

InitApi ==
  /\ DbInit
  /\ q = QIdle
  /\ env = EnvIdle
  /\ tests = TestsIdle
  /\ \E config \in ApiConfigs :
       api = [stage |-> "live", config |-> config, client |-> ApiClientOf(config),
              threw |-> "", options |-> NoOptions, sent |-> NoRequest, resp |-> NoResponse]

NextApi ==
  \E verb \in Verbs, options \in RequestOptions, payload \in Payloads :
    ApiRequest(verb, options, payload)

SpecApi == InitApi /\ [][NextApi]_allVars

\* An ApiResponse as a verb returns it, followed through the calls of its accessors.
InitApiResponse ==
  /\ DbInit
  /\ q = QIdle
  /\ env = EnvIdle
  /\ tests = TestsIdle
  /\ \E payload \in Payloads : api = [stage |-> "response", resp |-> ApiResponseOf(payload)]

NextApiResponse ==
  \/ JsonCall
  \/ JsonParsed
  \/ TextCall
  \/ BodyCall

SpecApiResponse == InitApiResponse /\ [][NextApiResponse]_allVars

\* ------------------------------------------------------------ properties

\* The step just taken settled transaction() call i.
JustSettled(i) ==
  /\ ev.call = i
  /\ tx[i].pc = "done"
  /\ ~(ev.op = "txStart" /\ ev.out = "NotConnected")

\* What query() through the instance would return now.
QueryNow == StmtVia("query", 0, FALSE, 0, connTx, committed, pending)

\* Whether the step's driver calls include one with this verb.
Called(verb) == \E k \in 1..Len(ev.drv) : ev.drv[k][1] = verb

\* C1: on a Postgres, MySQL or SQL Server client, when transaction() settles after
\* a body that wrote through the client and then threw, a ROLLBACK was issued on the
\* call's own handle, the committed rows are those of before the transaction, and a
\* query through the instance returns exactly those rows (none of the body's new rows).
C1_RollbackRestoresStore ==
  \A i \in Calls :
    (/\ provider \in Networked
     /\ ~disturbed
     /\ JustSettled(i)
     /\ tx[i].bodyRes = "err"
     /\ tx[i].writes # {})
    => /\ tx[i].rbOn = i
       /\ committed = tx[i].snap
       /\ QueryNow.out = "ok"
       /\ QueryNow.rows = tx[i].snap

C1_Witness ==
  \E i \in Calls :
    /\ provider \in Networked
    /\ ~disturbed
    /\ JustSettled(i)
    /\ tx[i].bodyRes = "err"
    /\ tx[i].out = "BodyErr"
    /\ tx[i].writes # {}
    /\ tx[i].writes \cap tx[i].snap = {}

\* C2: for every provider, when the body of transaction() has completed normally
\* (and the driver failed no statement), transaction() resolves and every row the
\* body wrote is returned by a query through the same instance.
C2_CommitVisible ==
  \A i \in Calls :
    (/\ ~disturbed
     /\ JustSettled(i)
     /\ tx[i].bodyRes = "ok"
     /\ tx[i].out \notin {"CommitErr", "RollbackErr"})
    => /\ tx[i].out = "resolved"
       /\ QueryNow.out = "ok"
       /\ tx[i].writes \subseteq QueryNow.rows

\* C3: on the SQLite client, once the body of transaction() has ended, transaction()
\* resolved and all the body's rows are committed if the body fulfilled, and
\* transaction() rejected with the body's error and none of the body's new rows is
\* committed if the body rejected.
C3_SqliteAllOrNothing ==
  \A i \in Calls :
    (/\ provider = "sqlite"
     /\ ~disturbed
     /\ JustSettled(i)
     /\ tx[i].bodyRes # "")
    => /\ tx[i].bodyRes = "ok" =>
            tx[i].out = "resolved" /\ tx[i].writes \subseteq committed
       /\ tx[i].bodyRes = "err" =>
            tx[i].out = "BodyErr" /\ (tx[i].writes \ tx[i].snap) \cap committed = {}

\* C4: on a Postgres or MySQL client used without overlap, the connection a
\* transaction() call checked out is not released while the call is in flight, and
\* when the call settles it has been released exactly once, the handle slot is empty
\* and isTransaction is false; a call whose checkout failed released nothing and
\* left pool, slot and flag as they were.
C4_ReleasedExactlyOnce ==
  \A i \in Calls :
    (provider \in Pooled /\ ~disturbed) =>
      /\ tx[i].pc \in {"begin", "body", "commit", "rollback"} =>
           connRel[i] = 0 /\ handle = i /\ isTransaction
      /\ (JustSettled(i) /\ tx[i].out # "CheckoutErr") =>
           connRel[i] = 1 /\ Called("release") /\ handle = 0 /\ ~isTransaction
      /\ (JustSettled(i) /\ tx[i].out = "CheckoutErr") =>
           /\ connRel[i] = 0
           /\ ev.drv = <<>>
           /\ pool = ev.prePool /\ handle = ev.preHandle /\ isTransaction = ev.preIsTx

C4_Witness ==
  \E i \in Calls :
    /\ provider \in Pooled
    /\ ~disturbed
    /\ JustSettled(i)
    /\ tx[i].out = "RollbackErr"
    /\ connRel[i] = 1

\* C5: on a Postgres, MySQL or SQL Server client, a transaction() call whose body
\* failed rejects with the body's own error.
C5_BodyErrorReraised ==
  \A i \in Calls :
    (/\ provider \in Networked
     /\ ~disturbed
     /\ JustSettled(i)
     /\ tx[i].bodyRes = "err")
    => tx[i].out = "BodyErr"

\* C6: on a Postgres, MySQL or SQL Server client, a statement issued through the
\* connected instance goes to the handle of the transaction that has begun, if
\* there is one, and to the pool otherwise; and a query of a transaction body
\* returns the rows the body has written.
C6_RoutedToHandle ==
  (provider \in Networked /\ ~disturbed /\ ev.stmt # "" /\ ev.prePool # 0) =>
    /\ ev.drv # <<>>
    /\ IF ev.preActive # {}
         THEN \E i \in ev.preActive : ev.drv[1] = <<"connStmt", i>>
         ELSE ev.drv[1] = <<"poolStmt", ev.prePool>>
    /\ \A i \in Calls :
         (ev.call = i /\ ev.stmt = "query" /\ ev.out = "ok") => tx[i].writes \subseteq ev.rows

C6_Witness ==
  \E i \in Calls :
    /\ provider \in Networked
    /\ ~disturbed
    /\ ev.call = i
    /\ ev.stmt = "query"
    /\ ev.out = "ok"
    /\ tx[i].writes # {}
    /\ tx[i].writes \cap committed = {}
    /\ tx[i].writes \subseteq ev.rows

\* C7: for every provider, a query(), execute() or transaction() call made while
\* the instance is not connected fails with the not-connected error, makes no call
\* on the driver and changes nothing of the instance or the store.
C7_NotConnectedFails ==
  [][(ev'.op \in {"query", "execute", "txStart"} /\ life # "connected") =>
       /\ ev'.out = "NotConnected"
       /\ ev'.drv = <<>>
       /\ UNCHANGED <<pool, handle, isTransaction, nPools, poolEnds, committed, pending,
                      connTx, connRel, tx>>]_vars

C7_Witness ==
  /\ ev.op \in {"query", "execute", "txStart"}
  /\ ev.preLife = "closed"
  /\ ev.out = "NotConnected"
  /\ nPools > 0

\* C8: for every provider, connect() called on an instance whose connect() has
\* completed (and with no connect or disconnect in flight) resolves, creates no
\* pool and leaves the instance with the pool it had.
C8_ConnectIdempotent ==
  (ev.op = "connect" /\ ev.preLife = "connected" /\ ev.preBusy = 0) =>
    /\ ev.out = "ok"
    /\ ev.drv = <<>>
    /\ pool # 0
    /\ pool = ev.prePool

C8_Witness ==
  /\ ev.op = "connect"
  /\ ev.preLife = "connected"
  /\ ev.preBusy = 0
  /\ ev.out = "ok"
  /\ nPools = 1

\* C9: for every provider, with no other connect or disconnect in flight, a
\* disconnect() call on a connected instance closes its pool, which has then been
\* closed exactly once, and a disconnect() call on an instance that is not connected
\* resolves and closes nothing.
C9_DisconnectIdempotent ==
  /\ (ev.op = "disconnect" /\ ev.preLife = "connected" /\ ev.preBusy = 0) =>
       /\ ev.prePool # 0
       /\ Called("end")
       /\ poolEnds[ev.prePool] = 1
  /\ (ev.op = "disconnect" /\ ev.preLife # "connected" /\ ev.preBusy = 0) =>
       /\ ev.out = "ok"
       /\ ~Called("end")
       /\ pool = 0

C9_Witness ==
  /\ ev.op = "disconnect"
  /\ ev.preLife = "closed"
  /\ ev.preBusy = 0
  /\ ev.out = "ok"
  /\ \E p \in 1..MaxPools : poolEnds[p] = 1

\* C10: on a Postgres, MySQL or SQL Server client, disconnect() called while the
\* instance holds a handle and a pool releases the handle and then closes the pool,
\* and leaves the slot empty; when it has resumed the pool slot is empty too.
C10_HandleReleasedFirst ==
  /\ (provider \in Networked /\ ev.op = "disconnect" /\ ev.preHandle # 0 /\ ev.prePool # 0) =>
       /\ ev.drv = <<<<"release", ev.preHandle>>, <<"end", ev.prePool>>>>
       /\ handle = 0
  /\ (provider \in Networked /\ ev.op = "disconnectDone") => pool = 0

\* C11: for every provider, a connect() call that asks the driver for a pool while
\* the backend is unreachable or rejects the credentials rejects with the connection
\* error, and leaves the instance without a pool.
C11_ConnectFailsWhenDown ==
  (ev.op \in {"connect", "connectDone"} /\ ev.backend = "down") =>
    /\ ev.out = "ConnectionError"
    /\ ~Called("newPool")
    /\ pool = ev.prePool

\* The number of `?` tokens of a text before position i, and in all of it.
QMarksBefore(sql, i) == Cardinality({j \in 1..(i - 1) : sql[j] = "?"})
QMarks(sql) == QMarksBefore(sql, Len(sql) + 1)

\* Whether position i of the text lies inside a quoted string literal.
InLiteral(sql, i) == Cardinality({j \in 1..(i - 1) : sql[j] = "'"}) % 2 = 1

\* C12: on the SQL Server client, for a text with n `?` and a params list of n
\* values, the text sent is the input with the k-th `?` from the left replaced by
\* `@pk` (k from 0) and every other token unchanged, and the request has input `pk`
\* bound to params[k] for every k.
C12_PlaceholdersNumberedInOrder ==
  (/\ provider = "mssql"
   /\ q.stage \in {"sent", "returned"}
   /\ q.params.given
   /\ QMarks(q.sql) = Len(q.params.vals))
  => /\ Len(q.text) = Len(q.sql)
     /\ \A i \in 1..Len(q.sql) :
          q.text[i] = IF q.sql[i] = "?"
                        THEN "@p" \o ToString(QMarksBefore(q.sql, i))
                        ELSE q.sql[i]
     /\ Len(q.inputs) = Len(q.params.vals)
     /\ \A k \in 1..Len(q.inputs) :
          q.inputs[k] = <<"p" \o ToString(k - 1), q.params.vals[k]>>

C12_Witness ==
  /\ provider = "mssql"
  /\ q.stage = "sent"
  /\ q.params.given
  /\ Len(q.params.vals) = 2
  /\ q.params.vals[1] # q.params.vals[2]
  /\ QMarks(q.sql) = 2
  /\ q.sql[1] # "?"
  /\ \E i, j \in 1..Len(q.text) : i < j /\ q.text[i] = "@p0" /\ q.text[j] = "@p1"

\* C13: on the SQL Server client, a `?` inside a quoted string literal of the SQL
\* text is left as it is, and the `?` tokens outside literals are replaced by `@p`
\* tokens in their order of occurrence, as far as the params reach.
C13_LiteralQMarksKept ==
  (/\ provider = "mssql"
   /\ q.stage \in {"sent", "returned"}
   /\ q.params.given)
  => /\ Len(q.text) = Len(q.sql)
     /\ \A i \in 1..Len(q.sql) :
          /\ (q.sql[i] = "?" /\ InLiteral(q.sql, i)) => q.text[i] = "?"
          /\ (q.sql[i] = "?" /\ ~InLiteral(q.sql, i)) =>
               LET k == Cardinality({j \in 1..(i - 1) : q.sql[j] = "?" /\ ~InLiteral(q.sql, j)})
               IN q.text[i] = IF k < Len(q.params.vals) THEN "@p" \o ToString(k) ELSE "?"
          /\ q.sql[i] # "?" => q.text[i] = q.sql[i]

\* C14: for every provider the SQL text handed to the driver contains none of the
\* parameter values and is the same for every params list of the same length, and
\* the values reach the driver as bound inputs.
C14_TextIndependentOfValues ==
  q.stage \in {"sent", "returned"} =>
    /\ \A i \in 1..Len(q.text) : q.text[i] \notin ParamValues
    /\ \A other \in ParamArgs :
         (other.given = q.params.given /\ Len(other.vals) = Len(q.params.vals)) =>
           SentText(provider, q.sql, other) = q.text
    /\ Len(q.inputs) = Len(q.params.vals)
    /\ \A k \in 1..Len(q.inputs) : q.inputs[k][2] = q.params.vals[k]

C14_Witness ==
  /\ provider = "mssql"
  /\ q.stage = "sent"
  /\ q.params.given
  /\ Len(q.params.vals) = 2
  /\ QMarks(q.sql) >= 1
  /\ q.text # q.sql
  /\ \E other \in ParamArgs :
       other.given /\ Len(other.vals) = 2 /\ other.vals # q.params.vals

\* C19: for every provider, the QueryResult query() returns for a read statement
\* (the driver answers with a row list) has rowCount equal to the number of its
\* rows, whatever row figure the driver reports.
C19_RowCountIsRowsLength ==
  (q.stage = "returned" /\ q.reply.isArray) =>
    /\ Len(q.result.rows) = q.reply.n
    /\ q.result.rowCount = Len(q.result.rows)

\* What query() through the instance, selecting by the key of `row`, would return now.
QueryByKey(row) ==
  LET r == QueryNow
      found == r.rows \cap {row}
  IN [out |-> r.out, rows |-> found,
      rowCount |-> IF r.out = "ok"
                     THEN RowCountOf(provider, [isArray |-> TRUE, n |-> Cardinality(found),
                                                count |-> Cardinality(found)])
                     ELSE 0]

C15_FactorySelectsOrThrows ==
  \A t \in 1..Len(tests) :
    tests[t].phase # "idle" =>
      /\ env.DB_PROVIDER \in Providers =>
           /\ tests[t].id # 0
           /\ tests[t].client.config.provider = env.DB_PROVIDER
           /\ tests[t].client.class =
                CASE env.DB_PROVIDER = "postgres" -> "PostgresClient"
                  [] env.DB_PROVIDER = "mysql" -> "MySqlClient"
                  [] env.DB_PROVIDER = "mssql" -> "MsSqlClient"
                  [] OTHER -> "SqliteClient"
      /\ env.DB_PROVIDER \in {Unset, ""} =>
           /\ tests[t].phase = "setupFailed"
           /\ tests[t].threw = <<"DB_PROVIDER environment variable is required", "">>
           /\ tests[t].id = 0 /\ tests[t].client = NoClient
      /\ env.DB_PROVIDER \notin Providers \cup {Unset, ""} =>
           /\ tests[t].phase = "setupFailed"
           /\ tests[t].threw = <<"Unsupported database provider: ", env.DB_PROVIDER>>
           /\ tests[t].id = 0 /\ tests[t].client = NoClient

C15_Witness ==
  \E t \in 1..Len(tests) :
    /\ env.DB_PROVIDER = "oracle"
    /\ tests[t].phase = "setupFailed"
    /\ tests[t].threw[2] = "oracle"

\* C16: a Postgres, MySQL or SQL Server client whose configuration carries a
\* connection string builds its pool from the connection string, and from the
\* discrete fields only when there is none.
C16_ConnectionStringOverrides ==
  \A t \in 1..Len(tests) :
    (tests[t].id # 0 /\ tests[t].client.class # "SqliteClient") =>
      tests[t].poolFrom =
        IF Truthy(tests[t].client.config.connectionString) THEN "connectionString" ELSE "fields"

\* C17: every test that reaches its body has a client no other test holds, whose
\* connect() has completed once and whose disconnect() has not been called; once
\* the body has ended, passed or failed, disconnect() has been called exactly once;
\* and it is not called for a test whose body never started.
C17_FixtureScopesClient ==
  \A t \in 1..Len(tests) :
    /\ tests[t].phase = "body" =>
         /\ tests[t].id # 0
         /\ tests[t].connects = 1
         /\ tests[t].disconnects = 0
    /\ tests[t].phase \in {"teardown", "done"} =>
         /\ tests[t].bodyRes \in {"passed", "failed"}
         /\ tests[t].connects = 1
         /\ tests[t].disconnects = 1
    /\ tests[t].phase \in {"idle", "connecting", "setupFailed"} => tests[t].disconnects = 0
    /\ \A u \in 1..Len(tests) :
         (u # t /\ tests[t].id # 0) => tests[u].id # tests[t].id

C17_Witness ==
  \E t, u \in 1..Len(tests) :
    /\ t # u
    /\ tests[t].phase = "done" /\ tests[t].bodyRes = "failed" /\ tests[t].disconnects = 1
    /\ tests[u].phase = "body" /\ tests[u].id # 0

\* C21: the headers sent by every verb are the instance's default headers overlaid
\* with the per-call headers: a key present in both is sent with the per-call
\* value, a key present only in the defaults is sent with its default value.
C21_PerCallHeadersWin ==
  (api.stage = "live" /\ api.sent # NoRequest) =>
    LET dflt == api.config.headers.map
        own == api.options.headers.map
    IN /\ DOMAIN api.sent.headers = DOMAIN dflt \cup DOMAIN own
       /\ \A k \in DOMAIN own : api.sent.headers[k] = own[k]
       /\ \A k \in DOMAIN dflt \ DOMAIN own : api.sent.headers[k] = dflt[k]

C21_Witness ==
  /\ api.stage = "live" /\ api.sent # NoRequest
  /\ api.sent.verb = "patch"
  /\ DOMAIN api.config.headers.map = HeaderKeys
  /\ DOMAIN api.options.headers.map = {"accept"}
  /\ api.sent.headers["accept"] = "call" /\ api.sent.headers["x-id"] = "dflt"

\* C22: the timeout passed to the underlying request is the per-call timeout
\* whenever the call supplies one, 0 included, and the instance default (the
\* configured timeout, else 30000) only when the call supplies none.
C22_PerCallTimeoutWins ==
  (api.stage = "live" /\ api.sent # NoRequest) =>
    api.sent.timeout =
      IF api.options.timeout # NoTimeout THEN api.options.timeout
      ELSE IF api.config.timeout # NoTimeout THEN api.config.timeout
      ELSE 30000

\* C23: on one ApiResponse the underlying response is parsed by json() at most
\* once, however many times json() is called and whatever the parsed value is.
C23_JsonParsedOnce ==
  api.stage = "response" =>
    (api.resp.payload # "<html>" => api.resp.jsonReads <= 1)

\* C24: on one ApiResponse the underlying response's text() and body() are each
\* read at most once.
C24_TextAndBodyReadOnce ==
  api.stage = "response" =>
    (api.resp.textReads <= 1 /\ api.resp.bodyReads <= 1)

\* C29: on the SQL Server client, for a text with m `?` and n params, exactly the
\* min(m, n) leftmost `?` become `@p0`..`@p(min(m,n)-1)` and the other tokens,
\* the remaining `?` included, are sent as they are; all n params are bound as
\* inputs p0..p(n-1); with params omitted or empty the text is sent unchanged and
\* no input is bound.
C29_LeftmostPlaceholdersReplaced ==
  (provider = "mssql" /\ q.stage \in {"sent", "returned"}) =>
    LET n == Len(q.params.vals) IN
    /\ Len(q.text) = Len(q.sql)
    /\ \A i \in 1..Len(q.sql) :
         q.text[i] = IF q.sql[i] = "?" /\ QMarksBefore(q.sql, i) < n
                       THEN "@p" \o ToString(QMarksBefore(q.sql, i))
                       ELSE q.sql[i]
    /\ Cardinality({i \in 1..Len(q.text) : q.text[i] = "?"}) =
         (IF QMarks(q.sql) > n THEN QMarks(q.sql) - n ELSE 0)
    /\ Len(q.inputs) = n
    /\ \A k \in 1..n : q.inputs[k] = <<"p" \o ToString(k - 1), q.params.vals[k]>>
    /\ (~q.params.given \/ n = 0) => (q.text = q.sql /\ q.inputs = <<>>)

C29_Witness ==
  /\ provider = "mssql"
  /\ q.stage = "sent"
  /\ QMarks(q.sql) = 3
  /\ Len(q.params.vals) = 2
  /\ Cardinality({i \in 1..Len(q.text) : q.text[i] = "?"}) = 1

C29_WitnessMoreParams ==
  /\ provider = "mssql"
  /\ q.stage = "sent"
  /\ QMarks(q.sql) = 1
  /\ Len(q.params.vals) = 2
  /\ Len(q.inputs) = 2

\* C28: overlapping connect() calls on one instance create at most one pool, and
\* the instance owns it: as long as no disconnect() has been called, at most one
\* pool exists however many connect() calls were made, and it is the one in the
\* instance's slot; when calls that overlapped are resumed exactly one pool is
\* created for all of them.
C28_OverlappingConnectsOnePool ==
  /\ (\A p \in 1..MaxPools : poolEnds[p] = 0) => (nPools <= 1 /\ pool = nPools)
  /\ (ev.op \in {"connect", "connectDone"} /\ ev.out = "ok" /\ ev.prePool = 0) =>
       (ev.drv = <<<<"newPool", pool>>>> /\ pool = nPools /\ connecting = 0)
  /\ (ev.op = "connect" /\ ev.prePool # 0) => (ev.drv = <<>> /\ pool = ev.prePool)

C28_Witness ==
  /\ ev.op = "connectDone" /\ ev.out = "ok"
  /\ ev.preBusy = 2
  /\ disconnecting = 0
  /\ nPools = 1 /\ pool = 1

\* C27: on a Postgres, MySQL or SQL Server client the isTransaction flag is true
\* exactly when the transaction-handle slot is non-empty, in every reachable state,
\* so no statement is routed to an empty slot.
C27_FlagMatchesSlot ==
  provider \in Networked =>
    /\ isTransaction <=> handle # 0
    /\ ev.stmt # "" => ~(ev.preIsTx /\ ev.preHandle = 0)

\* The events on the dedicated handle are in order for every call: the body runs
\* only inside the transaction BEGIN opened, COMMIT is issued only after the body
\* resolved, a settled call issued ROLLBACK exactly when it did not resolve, and no
\* statement is issued on a connection after its release.
HandleEventsOrdered ==
  /\ \A i \in Calls :
       /\ tx[i].pc = "body" => connTx[i] = "open"
       /\ tx[i].cmOn # 0 => tx[i].bodyRes = "ok"
       /\ (tx[i].pc = "done" /\ tx[i].out \notin {"NotConnected", "CheckoutErr"}) =>
            (tx[i].rbOn # 0 <=> tx[i].out # "resolved")
       /\ tx[i].pc = "done" => (tx[i].cmOn \in {0, i} /\ tx[i].rbOn \in {0, i})
  /\ \A k \in 1..Len(ev.drv) :
       ev.drv[k][1] \in {"connStmt", "BEGIN", "COMMIT", "ROLLBACK"} =>
         \/ connRel[ev.drv[k][2]] = 0
         \/ /\ connRel[ev.drv[k][2]] = 1
            /\ \E later \in (k + 1)..Len(ev.drv) : ev.drv[later] = <<"release", ev.drv[k][2]>>

Installed(j) ==
  \/ tx[j].pc \in {"begin", "body", "commit", "rollback"}
  \/ tx[j].pc = "done" /\ tx[j].out \notin {"NotConnected", "CheckoutErr"}

\* A transaction body has just issued a statement through the instance.
BodyStmtNow == ev.op \in {"beginDone", "body"} /\ ev.stmt # ""

C26_OverlapLeavesNothingOpen ==
  (/\ provider \in Pooled
   /\ \A i \in {1, 2} : tx[i].pc = "done" /\ Installed(i) /\ tx[i].out # "RollbackErr")
  => \A i \in {1, 2} :
       /\ connRel[i] = 1
       /\ connTx[i] = "none"
       /\ tx[i].cmOn \in {0, i} /\ tx[i].rbOn \in {0, i}

====
